---------------------------- MODULE Spec2Model ----------------------------
(***************************************************************************)
(* A model of gentestdisplay/LabJackHandler.py: the reference-counted      *)
(* device registry (LabJackHandler.Open / Close, LabJackDevice.Close),     *)
(* the typed register accessor (ReadRegister / WriteRegister) and the      *)
(* streaming controller (StreamStart / StreamStop).                        *)
(*                                                                         *)
(* The external LJM driver is modelled by what the code can observe of it: *)
(* a log of the calls made to it and a nondeterministic outcome for each   *)
(* call.                                                                   *)
(***************************************************************************)
EXTENDS Integers, Sequences, FiniteSets, TLC

\* ------------------------------------------------------------------ bounds
\* Registry calls (Open, Close, device Close) started in one behaviour.
MaxOps == 5

\* StreamStart / StreamStop calls started in one behaviour.
MaxStreamOps == 4

\* Sample blocks the driver delivers in one behaviour.
MaxBlocks == 2

\* The largest channel index of an indexed register family.
MaxIndex == 2

\* AvailableDevices / SetConfigDialog / GetConfigDialog calls started in one
\* behaviour.
MaxHandlerOps == 3

\* ------------------------------------------------------- program constants
LJD_NOT_A_VALID_REGISTER == 3
LJD_LABJACK_NOT_FOUND == 4
LJD_UNKNOWN_TYPE == 5
LJD_REGISTER_NOT_READABLE == 6
LJD_REGISTER_NOT_WRITABLE == 7
LJD_STREAMING_IN_PROGRESS == 9
LJD_STREAMING_REQUIRES_CALLBACK == 10
LJD_STREAMING_REQUIRES_CHANNELS == 11

\* Python's None, as the value of a slot that holds no object.
None == "None"

\* ------------------------------------------------------------------- state
\* The registry (LabJackHandler) and the device objects it creates.
VARIABLES
    sn_in_use,   \* LabJackHandler.sn_in_use: key -> [device, use]
    lock,        \* LabJackHandler.lock (RLock): [owner, count]
    devs,        \* the LabJackDevice objects created so far, by identity 1..Len
    ljmOpens,    \* log of successful ljm.openS calls: the serial string opened
    ljmCloses,   \* log of driver close calls: the handle closed
    frame,       \* per thread: the call it is executing and its position
    returned,    \* device objects some Open has returned to a caller
    hist,        \* completed registry calls, in lock order
    nops         \* registry calls started

regVars == <<sn_in_use, lock, devs, ljmOpens, ljmCloses, frame, returned, hist, nops>>

\* The register catalog and the accessor of one open device.
VARIABLES
    constants_doc,  \* self.constants["registers"]: the raw register entries
    registers,      \* self.registers: name -> descriptor
    regCall         \* the last ReadRegister / WriteRegister call and its outcome

accVars == <<constants_doc, registers, regCall>>

\* The streaming controller of one open device.
VARIABLES
    streaming,          \* LabJackDevice.__streaming
    stream_callback,    \* LabJackDevice.__stream_callback
    stream_completion,  \* LabJackDevice.__stream_completion
    ljmStream,          \* the driver's side: [running, registered]
    ljmCalls,           \* number of calls made to each stream primitive
    cbLog,              \* invocations of user callbacks: [cb, arg, by, seq]
    sframe,             \* per controlling thread: the call and its position
    sres,               \* per controlling thread: outcome of its last call
    dpc,                \* position of the driver's delivery context
    nstream,            \* StreamStart / StreamStop calls started
    nblocks             \* sample blocks the driver has delivered

strVars == <<streaming, stream_callback, stream_completion, ljmStream, ljmCalls,
             cbLog, sframe, sres, dpc, nstream, nblocks>>

\* Device discovery and the configuration-dialog slot of LabJackHandler.
VARIABLES
    available_devices,  \* LabJackHandler.available_devices: [isNone, table]
    aframe,             \* per thread: its AvailableDevices call and position
    ares,               \* per caller: what its last AvailableDevices call returned
    acalls,             \* AvailableDevices calls made by callers, by call number
    acbLog,             \* invocations of discovery callbacks: [cb, call, value, partial]
    config_dialog,      \* LabJackHandler.config_dialog
    config_dialg,       \* LabJackHandler.config_dialg
    cfg_set,            \* the argument of the latest SetConfigDialog call
    cfg_got,            \* the latest GetConfigDialog call: [called, value, expected]
    nhops               \* discovery and dialog calls started

hdlVars == <<available_devices, aframe, ares, acalls, acbLog, config_dialog,
             config_dialg, cfg_set, cfg_got, nhops>>

\* The registry's variables that discovery leaves alone (it takes self.lock).
regRest == <<sn_in_use, devs, ljmOpens, ljmCloses, frame, returned, hist, nops>>

vars == <<regVars, accVars, strVars, hdlVars>>

\* ======================================================================
\*                       THE DEVICE REGISTRY
\* ======================================================================

\* Caller threads of the registry.
Threads == {"t1", "t2"}

\* Serial numbers as callers pass them to Open.  A serial number is a Python
\* value: the string "12345" ("s:12345") and the integer 12345 ("i:12345")
\* are different dictionary keys.
SerialArgs == {"s:12345", "i:12345"}

\* str(serial_number): what LabJackDevice stores as its serial_number.
PyStr(sn) == IF sn = "i:12345" THEN "s:12345" ELSE sn


\* The value of LabJackDevice.handle after `self.handle = None`.
NoHandle == 0

\* A thread outside any call.  Fields: the call (op) and the position in it
\* (pc), the arguments (sn for Open, dev for Close), how Close was entered
\* (via), and what the call has seen and done so far.
IdleFrame == [pc |-> "idle", op |-> "none", sn |-> "none", dev |-> 0,
              via |-> "none", key |-> "none", before |-> 0, opened |-> FALSE,
              closed |-> 0, err |-> 0, branch |-> "none"]

EmptyTable == [k \in {} |-> [device |-> 0, use |-> 0]]

FreeLock == [owner |-> None, count |-> 0]

\* LabJackDevice.__init__: a new device object holding the handle.
NewDevice(handle, serial_number) ==
    [handle |-> handle, serial_number |-> PyStr(serial_number), lock |-> FreeLock]

RegistryInit ==
    /\ sn_in_use = EmptyTable
    /\ lock = FreeLock
    /\ devs = <<>>
    /\ ljmOpens = <<>>
    /\ ljmCloses = <<>>
    /\ frame = [t \in Threads |-> IdleFrame]
    /\ returned = {}
    /\ hist = <<>>
    /\ nops = 0

\* Mutant: a lock that excludes nobody.
CanAcquireNoExclusion(l, t) == TRUE

\* RLock.acquire: free, or already held by the same thread.
CanAcquire(l, t) == l.owner \in {None, t}
Acquire(l, t) == [owner |-> t, count |-> l.count + 1]
Release(l) == IF l.count = 1 THEN FreeLock ELSE [l EXCEPT !.count = l.count - 1]

\* The refcount of key k, 0 when the table has no entry for it.
UseOf(table, k) == IF k \in DOMAIN table THEN table[k].use ELSE 0

\* dict assignment and `del` on sn_in_use.
TablePut(table, k, rec) ==
    [x \in DOMAIN table \cup {k} |-> IF x = k THEN rec ELSE table[x]]
TableDel(table, k) == [x \in DOMAIN table \ {k} |-> table[x]]

\* One completed registry call, as recorded in hist.
HistEntry(f, dev, after) ==
    [op |-> f.op, key |-> f.key, dev |-> dev, before |-> f.before,
     after |-> after, opened |-> f.opened, closed |-> f.closed, err |-> f.err,
     branch |-> f.branch]

\* ------------------------------------------------------ LabJackHandler.Open

OpenCall(t, s) ==
    /\ frame[t].pc = "idle"
    /\ nops < MaxOps
    /\ nops' = nops + 1
    /\ frame' = [frame EXCEPT ![t] =
                   [IdleFrame EXCEPT !.pc = "open_lock", !.op = "Open",
                                     !.sn = s, !.key = s]]
    /\ UNCHANGED <<accVars, strVars, hdlVars>>
    /\ UNCHANGED <<sn_in_use, lock, devs, ljmOpens, ljmCloses, returned, hist>>

\* with self.lock:
OpenLock(t) ==
    /\ frame[t].pc = "open_lock"
    /\ CanAcquire(lock, t)
    /\ lock' = Acquire(lock, t)
    /\ frame' = [frame EXCEPT ![t].pc = "open_test"]
    /\ UNCHANGED <<accVars, strVars, hdlVars>>
    /\ UNCHANGED <<sn_in_use, devs, ljmOpens, ljmCloses, returned, hist, nops>>

\* Mutant: Open never finds the record and opens the device again.
OpenNeverFindsRecord(s) == FALSE

\* if serial_number in self.sn_in_use
OpenFindsRecord(s) == s \in DOMAIN sn_in_use

\* The test, and the increment of the branch that finds the record.
OpenTest(t) ==
    /\ frame[t].pc = "open_test"
    /\ LET s == frame[t].sn IN
       IF OpenFindsRecord(s)
       THEN /\ sn_in_use' = [sn_in_use EXCEPT ![s].use = @ + 1]
            /\ frame' = [frame EXCEPT ![t].pc = "open_ret",
                                      ![t].before = sn_in_use[s].use]
       ELSE /\ sn_in_use' = sn_in_use
            /\ frame' = [frame EXCEPT ![t].pc = "open_driver"]
    /\ UNCHANGED <<accVars, strVars, hdlVars>>
    /\ UNCHANGED <<lock, devs, ljmOpens, ljmCloses, returned, hist, nops>>

\* ljm.openS succeeds: the device object is built and recorded with use 1.
OpenDriverOk(t) ==
    /\ frame[t].pc = "open_driver"
    /\ LET s == frame[t].sn
           handle == Len(ljmOpens) + 1
           d == Len(devs) + 1
       IN /\ ljmOpens' = Append(ljmOpens, PyStr(s))
          /\ devs' = Append(devs, NewDevice(handle, s))
          /\ sn_in_use' = TablePut(sn_in_use, s, [device |-> d, use |-> 1])
    /\ frame' = [frame EXCEPT ![t].pc = "open_ret", ![t].opened = TRUE]
    /\ UNCHANGED <<accVars, strVars, hdlVars>>
    /\ UNCHANGED <<lock, ljmCloses, returned, hist, nops>>

\* ljm.openS raises: the exception leaves the with block, no record is made.
OpenDriverFail(t) ==
    /\ frame[t].pc = "open_driver"
    /\ lock' = Release(lock)
    /\ hist' = Append(hist, HistEntry([frame[t] EXCEPT !.err = LJD_LABJACK_NOT_FOUND],
                                      0, UseOf(sn_in_use, frame[t].sn)))
    /\ frame' = [frame EXCEPT ![t] = IdleFrame]
    /\ UNCHANGED <<accVars, strVars, hdlVars>>
    /\ UNCHANGED <<sn_in_use, devs, ljmOpens, ljmCloses, returned, nops>>

\* return self.sn_in_use[serial_number]['device'], and the end of the with
\* block.  A missing entry is a KeyError (err -1).
OpenReturn(t) ==
    /\ frame[t].pc = "open_ret"
    /\ LET s == frame[t].sn
           found == s \in DOMAIN sn_in_use
           d == IF found THEN sn_in_use[s].device ELSE 0
           f == IF found THEN frame[t] ELSE [frame[t] EXCEPT !.err = -1]
       IN /\ returned' = IF found THEN returned \cup {d} ELSE returned
          /\ hist' = Append(hist, HistEntry(f, d, UseOf(sn_in_use, s)))
    /\ lock' = Release(lock)
    /\ frame' = [frame EXCEPT ![t] = IdleFrame]
    /\ UNCHANGED <<accVars, strVars, hdlVars>>
    /\ UNCHANGED <<sn_in_use, devs, ljmOpens, ljmCloses, nops>>

\* ----------------------------------------------------- LabJackHandler.Close

\* Close(device) called by the user on a device some Open returned.
CloseCall(t, d) ==
    /\ frame[t].pc = "idle"
    /\ nops < MaxOps
    /\ d \in returned
    /\ nops' = nops + 1
    /\ frame' = [frame EXCEPT ![t] =
                   [IdleFrame EXCEPT !.pc = "close_lock", !.op = "Close",
                                     !.dev = d, !.via = "direct",
                                     !.key = devs[d].serial_number]]
    /\ UNCHANGED <<accVars, strVars, hdlVars>>
    /\ UNCHANGED <<sn_in_use, lock, devs, ljmOpens, ljmCloses, returned, hist>>

\* with self.lock:
CloseLock(t) ==
    /\ frame[t].pc = "close_lock"
    /\ CanAcquire(lock, t)
    /\ lock' = Acquire(lock, t)
    /\ frame' = [frame EXCEPT ![t].pc = "close_test"]
    /\ UNCHANGED <<accVars, strVars, hdlVars>>
    /\ UNCHANGED <<sn_in_use, devs, ljmOpens, ljmCloses, returned, hist, nops>>

\* Mutant: Close without the membership guard; a missing key is a KeyError.
CloseBranchUnguarded(k) ==
    IF k \notin DOMAIN sn_in_use THEN [branch |-> "noop", err |-> -1]
    ELSE IF sn_in_use[k].use = 1 THEN [branch |-> "del", err |-> 0]
    ELSE [branch |-> "dec", err |-> 0]

\* The branch Close takes for the key k = device.serial_number, and the
\* error it raises there (none).
CloseBranch(k) ==
    IF k \notin DOMAIN sn_in_use THEN [branch |-> "noop", err |-> 0]
    ELSE IF sn_in_use[k].use = 1 THEN [branch |-> "del", err |-> 0]
    ELSE [branch |-> "dec", err |-> 0]

CloseTest(t) ==
    /\ frame[t].pc = "close_test"
    /\ LET k == frame[t].key
           b == CloseBranch(k)
       IN frame' = [frame EXCEPT ![t].pc = "close_" \o b.branch,
                                 ![t].branch = b.branch,
                                 ![t].err = b.err,
                                 ![t].before = UseOf(sn_in_use, k)]
    /\ UNCHANGED <<accVars, strVars, hdlVars>>
    /\ UNCHANGED <<sn_in_use, lock, devs, ljmOpens, ljmCloses, returned, hist, nops>>

\* Mutant: a driver close on every release, whatever the refcount.
DriverCloseOnEveryRelease(branch, handle) == <<handle>>

\* The driver close calls Close makes in a branch, on the handle of the
\* recorded device: none.  `del(device)` unbinds a local name; nothing in the
\* file calls ljm.close.
DriverCloseCalls(branch, handle) == <<>>

\* use == 1: fetch the recorded device, delete the table entry, del(device).
CloseDel(t) ==
    /\ frame[t].pc = "close_del"
    /\ LET k == frame[t].key IN
       IF k \in DOMAIN sn_in_use
       THEN LET device == sn_in_use[k].device
                calls == DriverCloseCalls("del", devs[device].handle)
            IN /\ sn_in_use' = TableDel(sn_in_use, devs[device].serial_number)
               /\ ljmCloses' = ljmCloses \o calls
               /\ frame' = [frame EXCEPT ![t].pc = "close_rel",
                                         ![t].closed = Len(calls)]
       ELSE \* KeyError
            /\ UNCHANGED <<sn_in_use, ljmCloses>>
            /\ frame' = [frame EXCEPT ![t].pc = "close_rel", ![t].err = -1]
    /\ UNCHANGED <<accVars, strVars, hdlVars>>
    /\ UNCHANGED <<lock, devs, ljmOpens, returned, hist, nops>>

\* use != 1: self.sn_in_use[device.serial_number]['use'] -= 1
CloseDec(t) ==
    /\ frame[t].pc = "close_dec"
    /\ LET k == frame[t].key IN
       IF k \in DOMAIN sn_in_use
       THEN LET calls == DriverCloseCalls("dec", devs[sn_in_use[k].device].handle)
            IN /\ sn_in_use' = [sn_in_use EXCEPT ![k].use = @ - 1]
               /\ ljmCloses' = ljmCloses \o calls
               /\ frame' = [frame EXCEPT ![t].pc = "close_rel",
                                         ![t].closed = Len(calls)]
       ELSE \* KeyError
            /\ UNCHANGED <<sn_in_use, ljmCloses>>
            /\ frame' = [frame EXCEPT ![t].pc = "close_rel", ![t].err = -1]
    /\ UNCHANGED <<accVars, strVars, hdlVars>>
    /\ UNCHANGED <<lock, devs, ljmOpens, returned, hist, nops>>

\* no record: nothing to do.
CloseNoop(t) ==
    /\ frame[t].pc = "close_noop"
    /\ frame' = [frame EXCEPT ![t].pc = "close_rel"]
    /\ UNCHANGED <<accVars, strVars, hdlVars>>
    /\ UNCHANGED <<sn_in_use, lock, devs, ljmOpens, ljmCloses, returned, hist, nops>>

\* End of the with block: the call is complete as far as the registry goes.
\* A direct call returns to the user; a call made by LabJackDevice.Close
\* returns into it.
CloseRelease(t) ==
    /\ frame[t].pc = "close_rel"
    /\ lock' = Release(lock)
    /\ hist' = Append(hist, HistEntry(frame[t], frame[t].dev,
                                      UseOf(sn_in_use, frame[t].key)))
    /\ frame' = [frame EXCEPT ![t] = IF frame[t].via = "direct" THEN IdleFrame
                                     ELSE [frame[t] EXCEPT !.pc = "dclose_handle"]]
    /\ UNCHANGED <<accVars, strVars, hdlVars>>
    /\ UNCHANGED <<sn_in_use, devs, ljmOpens, ljmCloses, returned, nops>>

\* ------------------------------------------------------ LabJackDevice.Close

\* device.Close(), also the body of __exit__ and of __del__.
DevCloseCall(t, d) ==
    /\ frame[t].pc = "idle"
    /\ nops < MaxOps
    /\ d \in returned
    /\ nops' = nops + 1
    /\ frame' = [frame EXCEPT ![t] =
                   [IdleFrame EXCEPT !.pc = "dclose_lock", !.op = "DevClose",
                                     !.dev = d, !.via = "device",
                                     !.key = devs[d].serial_number]]
    /\ UNCHANGED <<accVars, strVars, hdlVars>>
    /\ UNCHANGED <<sn_in_use, lock, devs, ljmOpens, ljmCloses, returned, hist>>

\* with self.lock: (the device's own RLock), then self.driver.Close(self)
DevCloseLock(t) ==
    /\ frame[t].pc = "dclose_lock"
    /\ LET d == frame[t].dev IN
       /\ CanAcquire(devs[d].lock, t)
       /\ devs' = [devs EXCEPT ![d].lock = Acquire(@, t)]
    /\ frame' = [frame EXCEPT ![t].pc = "close_lock"]
    /\ UNCHANGED <<accVars, strVars, hdlVars>>
    /\ UNCHANGED <<sn_in_use, lock, ljmOpens, ljmCloses, returned, hist, nops>>

\* self.handle = None, and the end of the device's with block.
DevCloseFinish(t) ==
    /\ frame[t].pc = "dclose_handle"
    /\ LET d == frame[t].dev IN
       devs' = [devs EXCEPT ![d].handle = NoHandle, ![d].lock = Release(@)]
    /\ frame' = [frame EXCEPT ![t] = IdleFrame]
    /\ UNCHANGED <<accVars, strVars, hdlVars>>
    /\ UNCHANGED <<sn_in_use, lock, ljmOpens, ljmCloses, returned, hist, nops>>

RegistryNext ==
    \E t \in Threads :
        \/ \E s \in SerialArgs : OpenCall(t, s)
        \/ OpenLock(t)
        \/ OpenTest(t)
        \/ OpenDriverOk(t)
        \/ OpenDriverFail(t)
        \/ OpenReturn(t)
        \/ \E d \in 1..Len(devs) : CloseCall(t, d)
        \/ CloseLock(t)
        \/ CloseTest(t)
        \/ CloseDel(t)
        \/ CloseDec(t)
        \/ CloseNoop(t)
        \/ CloseRelease(t)
        \/ \E d \in 1..Len(devs) : DevCloseCall(t, d)
        \/ DevCloseLock(t)
        \/ DevCloseFinish(t)

\* ======================================================================
\*                    THE TYPED REGISTER ACCESSOR
\* ======================================================================

\* Python values that cross the accessor: an int n, a float (n counts
\* halves, so 3 is 1.5), a str s, or None.
PyInt(n) == [t |-> "int", n |-> n, s |-> ""]
PyFloat(halves) == [t |-> "float", n |-> halves, s |-> ""]
PyString(s) == [t |-> "str", n |-> 0, s |-> s]
PyNone == [t |-> "None", n |-> 0, s |-> ""]

\* The numeric value of an int or a float, in halves.
Halves(v) == IF v.t = "int" THEN 2 * v.n ELSE v.n

\* Python's == between two such values: numbers compare by value across int
\* and float, a str equals only the same str.
PyEq(a, b) ==
    IF a.t \in {"int", "float"} /\ b.t \in {"int", "float"}
    THEN Halves(a) = Halves(b)
    ELSE a.t = b.t /\ a.s = b.s

\* Decimal strings Python can parse, with their value in halves; every other
\* string (a register name among them) is a ValueError.
IntLiterals == {"2", "-1"}
FloatLiterals == IntLiterals \cup {"1.5"}
LiteralHalves(s) == CASE s = "2" -> 4 [] s = "-1" -> -2 [] s = "1.5" -> 3 [] OTHER -> 0

\* int(v): truncation toward zero of a float, the parse of a str.
CanInt(v) == v.t \in {"int", "float"} \/ (v.t = "str" /\ v.s \in IntLiterals)
TruncHalves(h) == IF h >= 0 THEN h \div 2 ELSE -((-h) \div 2)
IntOf(v) ==
    CASE v.t = "int" -> v
      [] v.t = "float" -> PyInt(TruncHalves(v.n))
      [] OTHER -> PyInt(TruncHalves(LiteralHalves(v.s)))

\* float(v)
CanFloat(v) == v.t \in {"int", "float"} \/ (v.t = "str" /\ v.s \in FloatLiterals)
FloatOf(v) ==
    CASE v.t = "int" -> PyFloat(2 * v.n)
      [] v.t = "float" -> v
      [] OTHER -> PyFloat(LiteralHalves(v.s))

\* str(v), for the numbers the model uses.
StrOf(v) ==
    CASE v.t = "str" -> v
      [] v.t = "int" -> PyString(CASE v.n = 0 -> "0" [] v.n = 1 -> "1" [] v.n = 2 -> "2"
                                   [] v.n = -1 -> "-1" [] OTHER -> "int")
      [] v.t = "float" -> PyString(CASE v.n = 0 -> "0.0" [] v.n = 1 -> "0.5"
                                     [] v.n = 2 -> "1.0" [] v.n = 3 -> "1.5"
                                     [] v.n = 4 -> "2.0" [] v.n = -3 -> "-1.5"
                                     [] OTHER -> "float")
      [] OTHER -> PyString("None")

\* The type tags the accessor dispatches on, and one it does not know.
IntTypes == {"INT16", "INT32", "UINT16", "UINT32"}
StringTypes == {"STRING"}
FloatTypes == {"FLOAT32", "FLOAT64"}
TypeTags == IntTypes \cup StringTypes \cup FloatTypes \cup {"BYTE"}

\* The characters of a 'readwrite' string.
Chars(rw) ==
    CASE rw = "R" -> {"R"} [] rw = "W" -> {"W"} [] rw = "RW" -> {"R", "W"}
      [] OTHER -> {}

\* A raw entry of the constants document.  has_constants says whether the
\* entry carries a "constants" key; constants is its list of {value, name}.
RawEntry(name, address, type, readwrite, has_constants, constants) ==
    [name |-> name, address |-> address, type |-> type, readwrite |-> readwrite,
     has_constants |-> has_constants, constants |-> constants]

\* { constant["value"]: constant["name"] for constant in constants }: a later
\* pair with the same value replaces an earlier one.
InvertConstants(list) ==
    [v \in {list[i].value : i \in DOMAIN list} |->
        LET last == CHOOSE i \in DOMAIN list :
                        /\ list[i].value = v
                        /\ \A j \in DOMAIN list : list[j].value = v => j <= i
        IN list[last].name]

\* An indexed-family name, head#(start:end)rest, by its parts.
FamilyShape(head, start, end, rest) ==
    [head |-> head, start |-> start, end |-> end, rest |-> rest]

\* reg["name"] of a family entry.
PatternText(f) ==
    f.head \o "#(" \o ToString(f.start) \o ":" \o ToString(f.end) \o ")" \o f.rest

\* The heads and rests the documents use.  The pattern of reg_info takes a
\* head of letters and digits only and a rest that begins with "_".
Heads == {"AIN", "DIO", "STREAM_OUT"}
Rests == {"_EF", "_RANGE", ""}
AlnumHeads == {"AIN", "DIO"}
UnderscoreRests == {"_EF", "_RANGE"}

IndexedShapes ==
    { FamilyShape(h, st, en, x) :
        h \in Heads, st \in 0..MaxIndex, en \in 0..MaxIndex, x \in Rests }

\* reg_info.match(reg["name"]): the parsed parts as a one-element set, the
\* empty set when the pattern does not match.
RegInfoMatch(name) ==
    { f \in IndexedShapes :
        /\ PatternText(f) = name
        /\ f.head \in AlnumHeads
        /\ f.rest \in UnderscoreRests }

\* "CHANNEL_GROUP_%s" % (head)
ChannelsDescriptor(f) == "CHANNEL_GROUP_" \o f.head

\* "%s%d%s" % (head, point, rest)
PointName(f, point) == f.head \o ToString(point) \o f.rest

\* Mutant: the address of the family's base given to every point.
PointAddressNotAdvanced(address, start, point) == address

\* The address of a point: `address` starts at int(reg["address"]) and is
\* advanced by one per point.
PointAddress(address, start, point) == address + (point - start)

EmptyCatalog == [n \in {} |-> RawEntry("", 0, "", "", FALSE, <<>>)]

\* self.registers[name] = value
CatalogPut(cat, name, value) ==
    [n \in DOMAIN cat \cup {name} |-> IF n = name THEN value ELSE cat[n]]

\* The body of the loop over self.constants["registers"] for one entry.
AddRegister(cat, reg) ==
    LET v == RegInfoMatch(reg.name) IN
    IF v # {}
    THEN LET f == CHOOSE g \in v : TRUE
             group == [name |-> reg.name, address |-> reg.address,
                       type |-> reg.type, readwrite |-> reg.readwrite,
                       has_constants |-> reg.has_constants,
                       constants |-> reg.constants,
                       first_channel |-> f.start, last_channel |-> f.end]
             points == f.start .. f.end
             withGroup == CatalogPut(cat, ChannelsDescriptor(f), group)
         IN [n \in DOMAIN withGroup \cup {PointName(f, i) : i \in points} |->
                IF \E i \in points : PointName(f, i) = n
                THEN LET i == CHOOSE j \in points : PointName(f, j) = n
                     IN [reg EXCEPT !.name = n,
                                    !.address = PointAddress(reg.address, f.start, i)]
                ELSE withGroup[n]]
    ELSE CatalogPut(cat, reg.name, reg)

\* The loop over the document, from entry k on.
RECURSIVE AddRegisters(_, _, _)
AddRegisters(cat, doc, k) ==
    IF k > Len(doc) THEN cat
    ELSE AddRegisters(AddRegister(cat, doc[k]), doc, k + 1)

\* The catalog built from a document: every entry added in document order (a
\* later entry replacing an earlier one of the same name), then the constants
\* of every catalog entry inverted.
BuildCatalog(doc) ==
    LET cat == AddRegisters(EmptyCatalog, doc, 1)
    IN [n \in DOMAIN cat |->
            [cat[n] EXCEPT !.constants = InvertConstants(cat[n].constants)]]

\* LabJackHandler._typeraw
Typeraw(name) == registers[name].type

\* An outcome of a call: the exception raised ("none" when it returned), its
\* LabJackException code, the value returned and the driver calls made.
Raised(exc, code) == [exc |-> exc, code |-> code, value |-> PyNone, calls |-> <<>>]
Returned(value, calls) == [exc |-> "none", code |-> 0, value |-> value, calls |-> calls]
DriverCall(fn, name, value) == [fn |-> fn, name |-> name, value |-> value]

\* Mutant: the permission test dropped from ReadRegister.
ReadableAlways(info) == TRUE

\* 'R' in self.driver.registers[name]['readwrite']
Readable(info) == "R" \in Chars(info.readwrite)

\* 'W' in self.driver.registers[name]['readwrite']
Writable(info) == "W" \in Chars(info.readwrite)

\* Mutant: the constants mapping is found but the value is not replaced.
ConstLookupKeepsValue(info, value) == value

\* if "constants" in info: if value in info["constants"]: value = ...[value]
\* The keys are the document's integer values; a dict finds a key that is ==
\* to the value looked up.
ConstLookup(info, value) ==
    IF info.has_constants
       /\ \E k \in DOMAIN info.constants : PyEq(PyInt(k), value)
    THEN PyString(info.constants[CHOOSE k \in DOMAIN info.constants :
                                     PyEq(PyInt(k), value)])
    ELSE value

\* LabJackDevice.ReadRegister(name), the driver answering `raw` if it is asked
\* (a float from eReadName, a str from eReadNameString).
ReadRegister(name, raw) ==
    IF name \notin DOMAIN registers
    THEN Raised("LabJackException", LJD_NOT_A_VALID_REGISTER)
    ELSE LET type_info == Typeraw(name)
             info == registers[name]
         IN IF ~Readable(info)
            THEN Raised("LabJackException", LJD_REGISTER_NOT_READABLE)
            ELSE IF type_info \in IntTypes
            THEN Returned(ConstLookup(info, IntOf(raw)),
                          <<DriverCall("eReadName", name, PyNone)>>)
            ELSE IF type_info \in StringTypes
            THEN Returned(ConstLookup(info, raw),
                          <<DriverCall("eReadNameString", name, PyNone)>>)
            ELSE IF type_info \in FloatTypes
            THEN Returned(ConstLookup(info, raw),
                          <<DriverCall("eReadName", name, PyNone)>>)
            ELSE Raised("LabJackException", LJD_UNKNOWN_TYPE)

\* LabJackDevice.WriteRegister(name, value).  In the float branch the code
\* evaluates float(name): a ValueError for a name that is no float literal,
\* and otherwise a call of ljm.eWriteName with an argument missing, a
\* TypeError; no driver write happens either way.
WriteRegister(name, value) ==
    IF name \notin DOMAIN registers
    THEN Raised("LabJackException", LJD_NOT_A_VALID_REGISTER)
    ELSE LET type_info == Typeraw(name)
             info == registers[name]
         IN IF ~Writable(info)
            THEN Raised("LabJackException", LJD_REGISTER_NOT_WRITABLE)
            ELSE IF type_info \in IntTypes
            THEN IF CanInt(value)
                 THEN Returned(PyNone, <<DriverCall("eWriteName", name, IntOf(value))>>)
                 ELSE Raised("ValueError", 0)
            ELSE IF type_info \in StringTypes
            THEN Returned(PyNone, <<DriverCall("eWriteNameString", name, StrOf(value))>>)
            ELSE IF type_info \in FloatTypes
            THEN IF CanFloat(PyString(name))
                 THEN Raised("TypeError", 0)
                 ELSE Raised("ValueError", 0)
            ELSE Raised("LabJackException", LJD_UNKNOWN_TYPE)

\* The documents the accessor is checked on: REG_A of every type tag,
\* permission string and shape of constants list, beside a plain REG_B.
ConstantsChoices ==
    { <<FALSE, <<>>>>,
      <<TRUE, <<>>>>,
      <<TRUE, <<[value |-> 0, name |-> "OFF"], [value |-> 1, name |-> "ON"]>>>>,
      <<TRUE, <<[value |-> 1, name |-> "ONE"], [value |-> 1, name |-> "UNO"]>>>> }

Docs ==
    { <<RawEntry("REG_A", 100, ty, rw, c[1], c[2]),
        RawEntry("REG_B", 200, "FLOAT32", "RW", FALSE, <<>>)>> :
      ty \in TypeTags, rw \in {"R", "W", "RW"}, c \in ConstantsChoices }

DefaultDoc == <<RawEntry("REG_B", 200, "FLOAT32", "RW", FALSE, <<>>)>>

RegisterNames == {"REG_A", "REG_B", "NOPE"}

\* What the driver may answer to a read of `name`: eReadName gives a float,
\* whole-numbered for an integer register; eReadNameString gives a str.
DriverReads(name) ==
    IF name \notin DOMAIN registers THEN {PyNone}
    ELSE IF registers[name].type \in IntTypes THEN {PyFloat(h) : h \in {0, 2, 4}}
    ELSE IF registers[name].type \in StringTypes THEN {PyString("ON"), PyString("2")}
    ELSE {PyFloat(h) : h \in {0, 1, 2, 3}}

\* The values callers write.
WriteValues == {PyInt(1), PyInt(-1), PyFloat(3), PyString("2"), PyString("abc")}

NoCall == [op |-> "none", name |-> "none", arg |-> PyNone, raw |-> PyNone,
           exc |-> "none", code |-> 0, value |-> PyNone, calls |-> <<>>]

CallRecord(op, name, arg, raw, out) ==
    [op |-> op, name |-> name, arg |-> arg,
     raw |-> IF out.calls = <<>> THEN PyNone ELSE raw,
     exc |-> out.exc, code |-> out.code, value |-> out.value, calls |-> out.calls]

\* The accessor with a catalog that no claim reads (the other specifications).
AccessorIdle ==
    /\ constants_doc = DefaultDoc
    /\ registers = BuildCatalog(DefaultDoc)
    /\ regCall = NoCall

\* LabJackHandler.__init__ on one of the documents.
AccessorInit ==
    /\ constants_doc \in Docs
    /\ registers = BuildCatalog(constants_doc)
    /\ regCall = NoCall

\* A call of device.ReadRegister(name); the whole call runs under the
\* device's lock.
DoRead(name, raw) ==
    /\ regCall' = CallRecord("Read", name, PyNone, raw, ReadRegister(name, raw))
    /\ UNCHANGED <<constants_doc, registers>>
    /\ UNCHANGED <<regVars, strVars, hdlVars>>

\* A call of device.WriteRegister(name, value).
DoWrite(name, value) ==
    /\ regCall' = CallRecord("Write", name, value, PyNone, WriteRegister(name, value))
    /\ UNCHANGED <<constants_doc, registers>>
    /\ UNCHANGED <<regVars, strVars, hdlVars>>

AccessorNext ==
    \E name \in RegisterNames :
        \/ \E raw \in DriverReads(name) : DoRead(name, raw)
        \/ \E value \in WriteValues : DoWrite(name, value)

\* ------------------------------------------- documents with indexed families

\* The names of the family documents: every family the pattern takes, the
\* shapes it refuses (a head with "_", an empty rest) over points 0..1, and
\* one plain name.
DocShapes ==
    { f \in IndexedShapes :
        /\ f.start <= f.end
        /\ \/ f.head \in AlnumHeads /\ f.rest \in UnderscoreRests
           \/ f.start = 0 /\ f.end = 1 }

FamilyEntries ==
    { RawEntry(PatternText(f), 100, "FLOAT32", "R", FALSE, <<>>) : f \in DocShapes }
      \cup { RawEntry("REG_B", 200, "FLOAT32", "RW", FALSE, <<>>) }

\* Documents of one or two entries.
FamilyDocs ==
    { <<a>> : a \in FamilyEntries } \cup { <<a, b>> : a, b \in FamilyEntries }

\* LabJackHandler.__init__ has read a document and not yet built the catalog.
CatalogInit ==
    /\ constants_doc \in FamilyDocs
    /\ registers = EmptyCatalog
    /\ regCall = NoCall

\* LabJackHandler.__init__, lines 207-246: self.registers built from
\* self.constants["registers"].
BuildRegisters ==
    /\ DOMAIN registers = {}
    /\ registers' = BuildCatalog(constants_doc)
    /\ UNCHANGED <<constants_doc, regCall>>
    /\ UNCHANGED <<regVars, strVars, hdlVars>>

CatalogNext == BuildRegisters

\* ======================================================================
\*               DISCOVERY AND THE CONFIGURATION DIALOG
\* ======================================================================

\* Threads calling AvailableDevices, and for each the thread that its call
\* with a callback starts (Thread(target=self._scan_thread, ...)).
Callers == {"a1", "a2"}
ScanThreads == {"w1", "w2"}
ScanThreadOf(t) == IF t = "a1" THEN "w1" ELSE "w2"

\* LABJACK_MODELS and LABJACK_CONNECTIONS; None for a key they do not hold.
ModelName(model) ==
    CASE model = 4 -> "T4" [] model = 7 -> "T7" [] OTHER -> None
ConnectionName(connection) ==
    CASE connection = 1 -> "USB" [] connection = 4 -> "TCP" [] OTHER -> None

\* One device of a listAllS answer, and the answers the driver gives.
Found(model, connection, sn) == [model |-> model, connection |-> connection, sn |-> sn]
ScanResults ==
    { <<Found(7, 1, 12345), Found(7, 4, 12345)>>,
      <<Found(8, 1, 999), Found(4, 4, 777)>>,
      <<Found(4, 3, 777)>> }

\* Values of available_devices: None, or a dict sn -> [model, connections].
NoDevices == [sn \in {} |-> [model |-> "", connections |-> <<>>]]
NoneValue == [isNone |-> TRUE, table |-> NoDevices]
DictValue(table) == [isNone |-> FALSE, table |-> table]

\* The body of the loop over the listAllS answer for one device.
AddFound(table, found) ==
    LET sn == ToString(found.sn)
        model == ModelName(found.model)
        connection == ConnectionName(found.connection)
    IN IF model = None \/ connection = None THEN table
       ELSE IF sn \notin DOMAIN table
       THEN [k \in DOMAIN table \cup {sn} |->
                IF k = sn THEN [model |-> model, connections |-> <<connection>>]
                ELSE table[k]]
       ELSE IF \E i \in DOMAIN table[sn].connections :
                   table[sn].connections[i] = connection
       THEN table
       ELSE [table EXCEPT ![sn].connections = Append(@, connection)]

\* The callbacks and dialogs callers pass.
ScanCallbacks == {"scb1"}
ScanCallbackArgs == ScanCallbacks \cup {None}
DialogArgs == {"dlg1", "dlg2", None}

AIdle ==
    [pc |-> "idle", call |-> 0, notify |-> None, force |-> FALSE,
     results |-> <<>>, index |-> 0, value |-> NoneValue, partial |-> FALSE]

NoReturn == [call |-> 0, exc |-> "none", value |-> NoneValue, partial |-> FALSE]

HandlerInit ==
    /\ available_devices = NoneValue
    /\ aframe = [t \in Callers \cup ScanThreads |-> AIdle]
    /\ ares = [t \in Callers |-> NoReturn]
    /\ acalls = <<>>
    /\ acbLog = <<>>
    /\ config_dialog = None
    /\ config_dialg = "unset"
    /\ cfg_set = None
    /\ cfg_got = [called |-> FALSE, value |-> None, expected |-> None]
    /\ nhops = 0

\* Some thread is inside the loop that fills the dict that available_devices
\* now names.
Populating ==
    \E u \in Callers \cup ScanThreads :
        aframe[u].pc = "av_loop" /\ aframe[u].index <= Len(aframe[u].results)

\* The end of an AvailableDevices call of thread t with result v: a caller
\* gets v returned; a scan thread goes on to call its callback with v.
AvFinish(t, v, partial) ==
    IF t \in Callers
    THEN /\ aframe' = [aframe EXCEPT ![t] = AIdle]
         /\ ares' = [ares EXCEPT ![t] = [call |-> aframe[t].call, exc |-> "none",
                                         value |-> v, partial |-> partial]]
         /\ acalls' = [acalls EXCEPT ![aframe[t].call].done = TRUE]
    ELSE /\ aframe' = [aframe EXCEPT ![t].pc = "scan_cb", ![t].value = v,
                                     ![t].partial = partial]
         /\ UNCHANGED <<ares, acalls>>

\* self.available_devices is None or force
NeedsScan(force) == available_devices.isNone \/ force

\* A caller enters AvailableDevices(callback, force): line 291, and for a
\* call that needs a scan and has a callback lines 294-298 (the thread is
\* started and None is returned).
AvCall(t, callback, force) ==
    /\ t \in Callers
    /\ aframe[t].pc = "idle" /\ aframe[ScanThreadOf(t)].pc = "idle"
    /\ nhops < MaxHandlerOps
    /\ nhops' = nhops + 1
    /\ LET c == Len(acalls) + 1
           entry == [callback |-> callback, force |-> force,
                     cached |-> ~available_devices.isNone,
                     done |-> FALSE, failed |-> FALSE]
       IN IF NeedsScan(force) /\ callback # None
          THEN /\ aframe' = [aframe EXCEPT ![ScanThreadOf(t)] =
                                [AIdle EXCEPT !.pc = "av_test", !.call = c,
                                              !.notify = callback, !.force = force]]
               /\ ares' = [ares EXCEPT ![t] = [NoReturn EXCEPT !.call = c]]
               /\ acalls' = Append(acalls, entry)
          ELSE /\ aframe' = [aframe EXCEPT ![t] =
                                [AIdle EXCEPT !.pc = IF NeedsScan(force)
                                                     THEN "av_lock" ELSE "av_cached",
                                              !.call = c, !.force = force]]
               /\ acalls' = Append(acalls, entry)
               /\ UNCHANGED ares
    /\ UNCHANGED <<available_devices, acbLog, config_dialog, config_dialg,
                   cfg_set, cfg_got, lock>>
    /\ UNCHANGED <<regRest, accVars, strVars>>

\* _scan_thread: self.AvailableDevices(force=force), line 291 of that call.
ScanTest(w) ==
    /\ w \in ScanThreads
    /\ aframe[w].pc = "av_test"
    /\ aframe' = [aframe EXCEPT ![w].pc = IF NeedsScan(aframe[w].force)
                                          THEN "av_lock" ELSE "av_cached"]
    /\ UNCHANGED <<available_devices, ares, acalls, acbLog, config_dialog,
                   config_dialg, cfg_set, cfg_got, nhops, lock>>
    /\ UNCHANGED <<regRest, accVars, strVars>>

\* with self.lock:
AvLock(t) ==
    /\ aframe[t].pc = "av_lock"
    /\ CanAcquire(lock, t)
    /\ lock' = Acquire(lock, t)
    /\ aframe' = [aframe EXCEPT ![t].pc = "av_list"]
    /\ UNCHANGED <<available_devices, ares, acalls, acbLog, config_dialog,
                   config_dialg, cfg_set, cfg_got, nhops>>
    /\ UNCHANGED <<regRest, accVars, strVars>>

\* results = ljm.listAllS("ANY", "ANY")
AvListOk(t, results) ==
    /\ aframe[t].pc = "av_list"
    /\ aframe' = [aframe EXCEPT ![t].pc = "av_reset", ![t].results = results]
    /\ UNCHANGED <<available_devices, ares, acalls, acbLog, config_dialog,
                   config_dialg, cfg_set, cfg_got, nhops, lock>>
    /\ UNCHANGED <<regRest, accVars, strVars>>

\* ljm.listAllS raises: the with statement releases the lock and the call
\* ends; in a scan thread the exception ends the thread.
AvListFail(t) ==
    /\ aframe[t].pc = "av_list"
    /\ lock' = Release(lock)
    /\ aframe' = [aframe EXCEPT ![t] = AIdle]
    /\ ares' = IF t \in Callers
               THEN [ares EXCEPT ![t] = [NoReturn EXCEPT !.call = aframe[t].call,
                                                         !.exc = "LJMError"]]
               ELSE ares
    /\ acalls' = [acalls EXCEPT ![aframe[t].call].done = TRUE,
                                ![aframe[t].call].failed = TRUE]
    /\ UNCHANGED <<available_devices, acbLog, config_dialog, config_dialg,
                   cfg_set, cfg_got, nhops>>
    /\ UNCHANGED <<regRest, accVars, strVars>>

\* self.available_devices = {}
AvReset(t) ==
    /\ aframe[t].pc = "av_reset"
    /\ available_devices' = DictValue(NoDevices)
    /\ aframe' = [aframe EXCEPT ![t].pc = "av_loop", ![t].index = 1]
    /\ UNCHANGED <<ares, acalls, acbLog, config_dialog, config_dialg, cfg_set,
                   cfg_got, nhops, lock>>
    /\ UNCHANGED <<regRest, accVars, strVars>>

\* One pass of `for index in range(results[0])`.
AvLoop(t) ==
    /\ aframe[t].pc = "av_loop"
    /\ aframe[t].index <= Len(aframe[t].results)
    /\ available_devices' =
          DictValue(AddFound(available_devices.table,
                             aframe[t].results[aframe[t].index]))
    /\ aframe' = [aframe EXCEPT ![t].index = @ + 1]
    /\ UNCHANGED <<ares, acalls, acbLog, config_dialog, config_dialg, cfg_set,
                   cfg_got, nhops, lock>>
    /\ UNCHANGED <<regRest, accVars, strVars>>

\* available = self.available_devices; the with statement ends; return.
AvScanned(t) ==
    /\ aframe[t].pc = "av_loop"
    /\ aframe[t].index > Len(aframe[t].results)
    /\ lock' = Release(lock)
    /\ AvFinish(t, available_devices, FALSE)
    /\ UNCHANGED <<available_devices, acbLog, config_dialog, config_dialg,
                   cfg_set, cfg_got, nhops>>
    /\ UNCHANGED <<regRest, accVars, strVars>>

\* else: available = self.available_devices; return.  No lock is taken and a
\* callback given to this call is not used.
AvCached(t) ==
    /\ aframe[t].pc = "av_cached"
    /\ AvFinish(t, available_devices, Populating)
    /\ UNCHANGED <<available_devices, acbLog, config_dialog, config_dialg,
                   cfg_set, cfg_got, nhops, lock>>
    /\ UNCHANGED <<regRest, accVars, strVars>>

\* _scan_thread: callback(...) with what AvailableDevices returned.
ScanCallback(w) ==
    /\ w \in ScanThreads
    /\ aframe[w].pc = "scan_cb"
    /\ acbLog' = Append(acbLog, [cb |-> aframe[w].notify, call |-> aframe[w].call,
                                 value |-> aframe[w].value,
                                 partial |-> aframe[w].partial])
    /\ acalls' = [acalls EXCEPT ![aframe[w].call].done = TRUE]
    /\ aframe' = [aframe EXCEPT ![w] = AIdle]
    /\ UNCHANGED <<available_devices, ares, config_dialog, config_dialg,
                   cfg_set, cfg_got, nhops, lock>>
    /\ UNCHANGED <<regRest, accVars, strVars>>

\* LabJackHandler.SetConfigDialog: self.config_dialg = dialog
SetConfigDialog(dialog) ==
    /\ nhops < MaxHandlerOps
    /\ nhops' = nhops + 1
    /\ config_dialg' = dialog
    /\ cfg_set' = dialog
    /\ UNCHANGED <<available_devices, aframe, ares, acalls, acbLog,
                   config_dialog, cfg_got, lock>>
    /\ UNCHANGED <<regRest, accVars, strVars>>

\* LabJackHandler.GetConfigDialog: return self.config_dialog
GetConfigDialog ==
    /\ nhops < MaxHandlerOps
    /\ nhops' = nhops + 1
    /\ cfg_got' = [called |-> TRUE, value |-> config_dialog, expected |-> cfg_set]
    /\ UNCHANGED <<available_devices, aframe, ares, acalls, acbLog,
                   config_dialog, config_dialg, cfg_set, lock>>
    /\ UNCHANGED <<regRest, accVars, strVars>>

HandlerNext ==
    \/ \E t \in Callers, cb \in ScanCallbackArgs, force \in BOOLEAN :
          AvCall(t, cb, force)
    \/ \E w \in ScanThreads : ScanTest(w) \/ ScanCallback(w)
    \/ \E t \in Callers \cup ScanThreads :
          \/ AvLock(t)
          \/ \E results \in ScanResults : AvListOk(t, results)
          \/ AvListFail(t)
          \/ AvReset(t)
          \/ AvLoop(t)
          \/ AvScanned(t)
          \/ AvCached(t)
    \/ \E dialog \in DialogArgs : SetConfigDialog(dialog)
    \/ GetConfigDialog

\* ======================================================================
\*                     THE STREAMING CONTROLLER
\* ======================================================================

\* Threads that may call StreamStart / StreamStop, and the ones that do.
StreamThreads == {"s1", "s2"}
Controllers == {"s1"}

\* The user's callbacks, and the arguments callers pass.
Callbacks == {"cb1", "cb2"}
CallbackArgs == Callbacks \cup {None}
ChannelArgs == {None, "empty", "names"}

\* What a user callback returns from the final call.
CallbackResults == {"None", "True"}

SIdle == [pc |-> "idle", op |-> "none", callback |-> None, channels |-> None,
          branch |-> "none", stops |-> 0, cbs |-> 0, drv |-> 0]

NoResult == [op |-> "none", seq |-> 0, exc |-> "none", code |-> 0, value |-> "None",
             callback |-> None, channels |-> None, branch |-> "none",
             stops |-> 0, cbs |-> 0, drv |-> 0]

\* The outcome of the call in frame f, recorded as call number seq.
SResult(f, seq, exc, code, value) ==
    [op |-> f.op, seq |-> seq, exc |-> exc, code |-> code, value |-> value,
     callback |-> f.callback, channels |-> f.channels, branch |-> f.branch,
     stops |-> f.stops, cbs |-> f.cbs, drv |-> f.drv]

NoStreamCalls == [namesToAddresses |-> 0, eStreamStart |-> 0, setStreamCallback |-> 0,
                  eStreamStop |-> 0, eStreamRead |-> 0]

\* LabJackDevice.__init__
StreamInit ==
    /\ streaming = FALSE
    /\ stream_callback = None
    /\ stream_completion = "None"
    /\ ljmStream = [running |-> FALSE, registered |-> FALSE]
    /\ ljmCalls = NoStreamCalls
    /\ cbLog = <<>>
    /\ sframe = [t \in StreamThreads |-> SIdle]
    /\ sres = [t \in StreamThreads |-> NoResult]
    /\ dpc = "idle"
    /\ nstream = 0
    /\ nblocks = 0

\* Mutant: the argument checks made before the streaming check.
StartCheckArgsFirst(is_streaming, callback, channels) ==
    IF callback = None THEN LJD_STREAMING_REQUIRES_CALLBACK
    ELSE IF channels = None THEN LJD_STREAMING_REQUIRES_CHANNELS
    ELSE IF is_streaming THEN LJD_STREAMING_IN_PROGRESS
    ELSE 0

\* The three checks that open StreamStart: the code of the LabJackException
\* raised, 0 when all pass.
StartCheck(is_streaming, callback, channels) ==
    IF is_streaming THEN LJD_STREAMING_IN_PROGRESS
    ELSE IF callback = None THEN LJD_STREAMING_REQUIRES_CALLBACK
    ELSE IF channels = None THEN LJD_STREAMING_REQUIRES_CHANNELS
    ELSE 0

\* ------------------------------------------------- LabJackDevice.StreamStart

\* The call and its checks; the device's lock is not taken.
SStartCheck(t, channels, callback) ==
    /\ sframe[t].pc = "idle"
    /\ nstream < MaxStreamOps
    /\ nstream' = nstream + 1
    /\ LET code == StartCheck(streaming, callback, channels)
           f == [SIdle EXCEPT !.op = "StreamStart", !.callback = callback,
                              !.channels = channels]
       IN IF code # 0
          THEN /\ sres' = [sres EXCEPT ![t] =
                             SResult(f, nstream', "LabJackException", code, "None")]
               /\ sframe' = sframe
          ELSE /\ sres' = sres
               /\ sframe' = [sframe EXCEPT ![t] = [f EXCEPT !.pc = "ss_resolve"]]
    /\ UNCHANGED <<streaming, stream_callback, stream_completion, ljmStream,
                   ljmCalls, cbLog, dpc, nblocks>>
    /\ UNCHANGED <<regVars, accVars, hdlVars>>

\* addresses = ljm.namesToAddresses(len(channels), channels)[0]
SStartResolveOk(t) ==
    /\ sframe[t].pc = "ss_resolve"
    /\ ljmCalls' = [ljmCalls EXCEPT !.namesToAddresses = @ + 1]
    /\ sframe' = [sframe EXCEPT ![t].pc = "ss_streaming", ![t].drv = @ + 1]
    /\ UNCHANGED <<streaming, stream_callback, stream_completion, ljmStream,
                   cbLog, sres, dpc, nstream, nblocks>>
    /\ UNCHANGED <<regVars, accVars, hdlVars>>

\* The name resolution raises (a name the driver does not know).
SStartResolveFail(t) ==
    /\ sframe[t].pc = "ss_resolve"
    /\ sframe[t].channels = "names"
    /\ ljmCalls' = [ljmCalls EXCEPT !.namesToAddresses = @ + 1]
    /\ sres' = [sres EXCEPT ![t] =
                  SResult([sframe[t] EXCEPT !.drv = @ + 1], nstream, "LJMError", 0, "None")]
    /\ sframe' = [sframe EXCEPT ![t] = SIdle]
    /\ UNCHANGED <<streaming, stream_callback, stream_completion, ljmStream,
                   cbLog, dpc, nstream, nblocks>>
    /\ UNCHANGED <<regVars, accVars, hdlVars>>

\* self.__streaming = True
SStartSetStreaming(t) ==
    /\ sframe[t].pc = "ss_streaming"
    /\ streaming' = TRUE
    /\ sframe' = [sframe EXCEPT ![t].pc = "ss_callback"]
    /\ UNCHANGED <<stream_callback, stream_completion, ljmStream, ljmCalls,
                   cbLog, sres, dpc, nstream, nblocks>>
    /\ UNCHANGED <<regVars, accVars, hdlVars>>

\* self.__stream_callback = callback
SStartSetCallback(t) ==
    /\ sframe[t].pc = "ss_callback"
    /\ stream_callback' = sframe[t].callback
    /\ sframe' = [sframe EXCEPT ![t].pc = "ss_driver"]
    /\ UNCHANGED <<streaming, stream_completion, ljmStream, ljmCalls,
                   cbLog, sres, dpc, nstream, nblocks>>
    /\ UNCHANGED <<regVars, accVars, hdlVars>>

\* rc = ljm.eStreamStart(...): the driver starts the stream.
SStartDriverOk(t) ==
    /\ sframe[t].pc = "ss_driver"
    /\ ~ljmStream.running
    /\ ljmStream' = [ljmStream EXCEPT !.running = TRUE]
    /\ ljmCalls' = [ljmCalls EXCEPT !.eStreamStart = @ + 1]
    /\ sframe' = [sframe EXCEPT ![t].pc = "ss_register", ![t].drv = @ + 1]
    /\ UNCHANGED <<streaming, stream_callback, stream_completion,
                   cbLog, sres, dpc, nstream, nblocks>>
    /\ UNCHANGED <<regVars, accVars, hdlVars>>

\* ljm.eStreamStart raises; the exception leaves StreamStart.
SStartDriverFail(t) ==
    /\ sframe[t].pc = "ss_driver"
    /\ ljmCalls' = [ljmCalls EXCEPT !.eStreamStart = @ + 1]
    /\ sres' = [sres EXCEPT ![t] =
                  SResult([sframe[t] EXCEPT !.drv = @ + 1], nstream, "LJMError", 0, "None")]
    /\ sframe' = [sframe EXCEPT ![t] = SIdle]
    /\ UNCHANGED <<streaming, stream_callback, stream_completion, ljmStream,
                   cbLog, dpc, nstream, nblocks>>
    /\ UNCHANGED <<regVars, accVars, hdlVars>>

\* ljm.setStreamCallback(self.handle, self.__stream_thread_callback); return rc
SStartRegisterOk(t) ==
    /\ sframe[t].pc = "ss_register"
    /\ ljmStream' = [ljmStream EXCEPT !.registered = TRUE]
    /\ ljmCalls' = [ljmCalls EXCEPT !.setStreamCallback = @ + 1]
    /\ sres' = [sres EXCEPT ![t] =
                  SResult([sframe[t] EXCEPT !.drv = @ + 1], nstream, "none", 0, "rc")]
    /\ sframe' = [sframe EXCEPT ![t] = SIdle]
    /\ UNCHANGED <<streaming, stream_callback, stream_completion,
                   cbLog, dpc, nstream, nblocks>>
    /\ UNCHANGED <<regVars, accVars, hdlVars>>

\* ljm.setStreamCallback raises.
SStartRegisterFail(t) ==
    /\ sframe[t].pc = "ss_register"
    /\ ljmCalls' = [ljmCalls EXCEPT !.setStreamCallback = @ + 1]
    /\ sres' = [sres EXCEPT ![t] =
                  SResult([sframe[t] EXCEPT !.drv = @ + 1], nstream, "LJMError", 0, "None")]
    /\ sframe' = [sframe EXCEPT ![t] = SIdle]
    /\ UNCHANGED <<streaming, stream_callback, stream_completion, ljmStream,
                   cbLog, dpc, nstream, nblocks>>
    /\ UNCHANGED <<regVars, accVars, hdlVars>>

\* -------------------------------------------------- LabJackDevice.StreamStop

\* The call and `if self.__streaming:`.
SStopCheck(t) ==
    /\ sframe[t].pc = "idle"
    /\ nstream < MaxStreamOps
    /\ nstream' = nstream + 1
    /\ sframe' = [sframe EXCEPT ![t] =
                    [SIdle EXCEPT !.op = "StreamStop",
                                  !.pc = IF streaming THEN "sp_clear" ELSE "sp_noop",
                                  !.branch = IF streaming THEN "stop" ELSE "noop"]]
    /\ UNCHANGED <<streaming, stream_callback, stream_completion, ljmStream,
                   ljmCalls, cbLog, sres, dpc, nblocks>>
    /\ UNCHANGED <<regVars, accVars, hdlVars>>

\* self.__streaming = False
SStopClear(t) ==
    /\ sframe[t].pc = "sp_clear"
    /\ streaming' = FALSE
    /\ sframe' = [sframe EXCEPT ![t].pc = "sp_driver"]
    /\ UNCHANGED <<stream_callback, stream_completion, ljmStream, ljmCalls,
                   cbLog, sres, dpc, nstream, nblocks>>
    /\ UNCHANGED <<regVars, accVars, hdlVars>>

\* ljm.eStreamStop(self.handle): the driver stops the stream and its delivery.
SStopDriverOk(t) ==
    /\ sframe[t].pc = "sp_driver"
    /\ ljmStream.running
    /\ ljmStream' = [running |-> FALSE, registered |-> FALSE]
    /\ ljmCalls' = [ljmCalls EXCEPT !.eStreamStop = @ + 1]
    /\ sframe' = [sframe EXCEPT ![t].pc = "sp_final", ![t].stops = @ + 1,
                                ![t].drv = @ + 1]
    /\ UNCHANGED <<streaming, stream_callback, stream_completion,
                   cbLog, sres, dpc, nstream, nblocks>>
    /\ UNCHANGED <<regVars, accVars, hdlVars>>

\* ljm.eStreamStop raises (no stream is running, or the device is gone).
SStopDriverFail(t) ==
    /\ sframe[t].pc = "sp_driver"
    /\ ljmCalls' = [ljmCalls EXCEPT !.eStreamStop = @ + 1]
    /\ sres' = [sres EXCEPT ![t] =
                  SResult([sframe[t] EXCEPT !.stops = @ + 1, !.drv = @ + 1],
                          nstream, "LJMError", 0, "None")]
    /\ sframe' = [sframe EXCEPT ![t] = SIdle]
    /\ UNCHANGED <<streaming, stream_callback, stream_completion, ljmStream,
                   cbLog, dpc, nstream, nblocks>>
    /\ UNCHANGED <<regVars, accVars, hdlVars>>

\* self.__stream_completion = self.__stream_callback(self.handle, None), the
\* callback returning r.  With no callback stored the call is a TypeError.
SStopFinal(t, r) ==
    /\ sframe[t].pc = "sp_final"
    /\ IF stream_callback = None
       THEN /\ sres' = [sres EXCEPT ![t] =
                          SResult(sframe[t], nstream, "TypeError", 0, "None")]
            /\ sframe' = [sframe EXCEPT ![t] = SIdle]
            /\ UNCHANGED <<cbLog, stream_completion>>
       ELSE /\ cbLog' = Append(cbLog, [cb |-> stream_callback, arg |-> "None", by |-> t,
                                        seq |-> nstream])
            /\ stream_completion' = r
            /\ sframe' = [sframe EXCEPT ![t].pc = "sp_return", ![t].cbs = @ + 1]
            /\ sres' = sres
    /\ UNCHANGED <<streaming, stream_callback, ljmStream, ljmCalls,
                   dpc, nstream, nblocks>>
    /\ UNCHANGED <<regVars, accVars, hdlVars>>

\* Mutant: the no-op branch leaves __stream_completion as it was.
StopNoopKeepsCompletion(previous) == previous

\* else: self.__stream_completion = False
StopNoopCompletion(previous) == "False"

SStopNoop(t) ==
    /\ sframe[t].pc = "sp_noop"
    /\ stream_completion' = StopNoopCompletion(stream_completion)
    /\ sframe' = [sframe EXCEPT ![t].pc = "sp_return"]
    /\ UNCHANGED <<streaming, stream_callback, ljmStream, ljmCalls,
                   cbLog, sres, dpc, nstream, nblocks>>
    /\ UNCHANGED <<regVars, accVars, hdlVars>>

\* return self.__stream_completion
SStopReturn(t) ==
    /\ sframe[t].pc = "sp_return"
    /\ sres' = [sres EXCEPT ![t] =
                  SResult(sframe[t], nstream, "none", 0, stream_completion)]
    /\ sframe' = [sframe EXCEPT ![t] = SIdle]
    /\ UNCHANGED <<streaming, stream_callback, stream_completion, ljmStream,
                   ljmCalls, cbLog, dpc, nstream, nblocks>>
    /\ UNCHANGED <<regVars, accVars, hdlVars>>

\* ------------------------------------ LabJackDevice.__stream_thread_callback

\* The driver has a block ready and calls the registered function on its own
\* delivery context.
DeliverStart ==
    /\ dpc = "idle"
    /\ ljmStream.running /\ ljmStream.registered
    /\ nblocks < MaxBlocks
    /\ nblocks' = nblocks + 1
    /\ dpc' = "d_read"
    /\ UNCHANGED <<streaming, stream_callback, stream_completion, ljmStream,
                   ljmCalls, cbLog, sframe, sres, nstream>>
    /\ UNCHANGED <<regVars, accVars, hdlVars>>

\* values = ljm.eStreamRead(handle): the driver hands out a block only while
\* the stream runs.
DeliverReadOk ==
    /\ dpc = "d_read"
    /\ ljmStream.running
    /\ ljmCalls' = [ljmCalls EXCEPT !.eStreamRead = @ + 1]
    /\ dpc' = "d_call"
    /\ UNCHANGED <<streaming, stream_callback, stream_completion, ljmStream,
                   cbLog, sframe, sres, nstream, nblocks>>
    /\ UNCHANGED <<regVars, accVars, hdlVars>>

\* ljm.eStreamRead raises; the delivery call ends without the user's callback.
DeliverReadFail ==
    /\ dpc = "d_read"
    /\ ljmCalls' = [ljmCalls EXCEPT !.eStreamRead = @ + 1]
    /\ dpc' = "idle"
    /\ UNCHANGED <<streaming, stream_callback, stream_completion, ljmStream,
                   cbLog, sframe, sres, nstream, nblocks>>
    /\ UNCHANGED <<regVars, accVars, hdlVars>>

\* self.__stream_callback(handle, values)
DeliverCall ==
    /\ dpc = "d_call"
    /\ cbLog' = IF stream_callback = None THEN cbLog
                ELSE Append(cbLog, [cb |-> stream_callback, arg |-> "data",
                                    by |-> "driver", seq |-> nstream])
    /\ dpc' = "idle"
    /\ UNCHANGED <<streaming, stream_callback, stream_completion, ljmStream,
                   ljmCalls, sframe, sres, nstream, nblocks>>
    /\ UNCHANGED <<regVars, accVars, hdlVars>>

\* One step of thread t inside StreamStart or StreamStop.
ControllerStep(t) ==
    \/ \E ch \in ChannelArgs, cb \in CallbackArgs : SStartCheck(t, ch, cb)
    \/ SStartResolveOk(t)
    \/ SStartResolveFail(t)
    \/ SStartSetStreaming(t)
    \/ SStartSetCallback(t)
    \/ SStartDriverOk(t)
    \/ SStartDriverFail(t)
    \/ SStartRegisterOk(t)
    \/ SStartRegisterFail(t)
    \/ SStopCheck(t)
    \/ SStopClear(t)
    \/ SStopDriverOk(t)
    \/ SStopDriverFail(t)
    \/ \E r \in CallbackResults : SStopFinal(t, r)
    \/ SStopNoop(t)
    \/ SStopReturn(t)

StreamNext ==
    \/ \E t \in Controllers : ControllerStep(t)
    \/ DeliverStart
    \/ DeliverReadOk
    \/ DeliverReadFail
    \/ DeliverCall

\* ======================================================================
\*                         SPECIFICATIONS
\* ======================================================================

\* The registry under concurrent callers.
Init == RegistryInit /\ AccessorIdle /\ StreamInit /\ HandlerInit

Spec == Init /\ [][RegistryNext]_vars

\* The register accessor on an open device, over the documents of Docs.
InitAccessor == RegistryInit /\ AccessorInit /\ StreamInit /\ HandlerInit

SpecAccessor == InitAccessor /\ [][AccessorNext]_vars

\* The catalog builder, over the documents of FamilyDocs.
InitCatalog == RegistryInit /\ CatalogInit /\ StreamInit /\ HandlerInit

SpecCatalog == InitCatalog /\ [][CatalogNext]_vars

\* The streaming controller of an open device: one controlling thread, and
\* the driver's delivery context running beside it.
SpecStream == Init /\ [][StreamNext]_vars

\* Two threads controlling the stream of one device object: neither
\* StreamStart nor StreamStop takes self.lock, so their statements interleave.
ConcurrentStreamNext == \E t \in StreamThreads : ControllerStep(t)

SpecStreamConcurrent == Init /\ [][ConcurrentStreamNext]_vars

\* Discovery and the dialog slot of one LabJackHandler under two callers.
SpecHandler == Init /\ [][HandlerNext]_vars

\* ======================================================================
\*                    PROPERTIES OF THE REGISTRY
\* ======================================================================

IsOpen(e) == e.op = "Open" /\ e.err = 0
IsClose(e) == e.op \in {"Close", "DevClose"}

\* Entries i < j of hist are two successful Opens of the same serial number
\* with no Close and no other Open of it in between.
OpenTwice(i, j) ==
    /\ i < j
    /\ IsOpen(hist[i]) /\ IsOpen(hist[j])
    /\ hist[i].key = hist[j].key
    /\ \A k \in (i+1)..(j-1) : ~IsClose(hist[k]) /\ hist[k].key # hist[i].key

\* C1: Open(s) called twice with no Close in between returns the same device
\* instance both times, the second call makes no driver open and raises the
\* refcount by one; when the first call created the record the refcount is 2
\* after the second.
C1_OpenTwiceSharesDevice ==
    \A i, j \in 1..Len(hist) :
        OpenTwice(i, j) =>
            /\ hist[j].dev = hist[i].dev
            /\ ~hist[j].opened
            /\ hist[j].after = hist[i].after + 1
            /\ hist[i].opened => hist[j].after = 2

C1_Witness ==
    \E i, j \in 1..Len(hist) :
        /\ OpenTwice(i, j)
        /\ hist[i].opened
        /\ hist[j].after = 2
        /\ hist[j].key \in DOMAIN sn_in_use
        /\ sn_in_use[hist[j].key] = [device |-> hist[i].dev, use |-> 2]
        /\ Len(ljmOpens) = 1

\* C2 (as claimed): a Close that finds refcount 1 removes the record and makes
\* exactly one driver close call; one that finds refcount > 1 decrements it
\* and makes no driver call.
C2_CloseLastOwnerClosesDriver ==
    \A i \in 1..Len(hist) :
        IsClose(hist[i]) =>
            /\ hist[i].before = 1 => hist[i].after = 0 /\ hist[i].closed = 1
            /\ hist[i].before > 1 => hist[i].after = hist[i].before - 1
                                     /\ hist[i].closed = 0

\* The number of driver close calls made on handle h.
ClosesOf(h) == Cardinality({i \in 1..Len(ljmCloses) : ljmCloses[i] = h})

\* C3: the driver's close primitive is called at most once for each
\* successful driver open, and only on handles the driver opened.
C3_CloseAtMostOncePerOpen ==
    /\ \A h \in 1..Len(ljmOpens) : ClosesOf(h) <= 1
    /\ \A i \in 1..Len(ljmCloses) : ljmCloses[i] \in 1..Len(ljmOpens)

\* Two owners opened one serial number and both released it, the last
\* release removing the record.
C3_Witness ==
    \E i, j, k, l \in 1..Len(hist) :
        /\ OpenTwice(i, j)
        /\ j < k /\ k < l
        /\ IsClose(hist[k]) /\ hist[k].branch = "dec" /\ hist[k].key = hist[i].key
        /\ IsClose(hist[l]) /\ hist[l].branch = "del" /\ hist[l].key = hist[i].key
        /\ ClosesOf(devs[hist[i].dev].handle) <= 1

\* C4: every entry of sn_in_use has use >= 1, and the table changes only in a
\* step of the thread that holds the registry lock.
C4_RefcountPositiveUnderLock ==
    /\ [](\A k \in DOMAIN sn_in_use : sn_in_use[k].use >= 1)
    /\ [][sn_in_use' # sn_in_use =>
            \E t \in Threads : /\ lock.owner = t
                               /\ lock.count >= 1
                               /\ frame'[t] # frame[t]
                               /\ \A u \in Threads \ {t} : frame'[u] = frame[u]]_vars

\* One thread is about to decrement under the lock while the other waits for
\* the lock.
C4_Witness ==
    \E t, u \in Threads :
        /\ t # u
        /\ frame[t].pc = "close_dec" /\ lock.owner = t
        /\ frame[u].pc \in {"open_lock", "close_lock"}
        /\ sn_in_use[frame[t].key].use = 2

\* C5: a LabJackHandler.Close that finds no record for the device's serial
\* number raises nothing, leaves sn_in_use unchanged and makes no driver call.
C5_CloseWithoutRecordIsNoop ==
    [][\A t \in Threads :
         /\ (frame[t].pc = "close_test" /\ frame[t].key \notin DOMAIN sn_in_use
             /\ frame'[t] # frame[t])
            => /\ frame'[t].pc = "close_noop"
               /\ frame'[t].err = 0
         /\ (frame[t].pc \in {"close_test", "close_noop", "close_rel"}
             /\ frame'[t].branch = "noop")
            => /\ sn_in_use' = sn_in_use
               /\ ljmCloses' = ljmCloses
               /\ ljmOpens' = ljmOpens
               /\ frame'[t].err = 0]_vars

\* A second release of a device whose record the first release removed.
C5_Witness ==
    \E i, j \in 1..Len(hist) :
        /\ i < j
        /\ IsClose(hist[i]) /\ hist[i].branch = "del"
        /\ IsClose(hist[j]) /\ hist[j].branch = "noop"
        /\ hist[j].dev = hist[i].dev
        /\ hist[j].err = 0 /\ hist[j].after = 0

\* C16 (as claimed): a device recorded in sn_in_use holds its driver handle.
C16_RecordedDeviceKeepsHandle ==
    \A k \in DOMAIN sn_in_use : devs[sn_in_use[k].device].handle # NoHandle

\* C19 (as claimed): a Close through a device object that is not the one
\* recorded under its serial number leaves sn_in_use as it is.
C19_StaleCloseLeavesNewRecord ==
    [][\A t \in Threads :
         (/\ frame[t].pc \in {"close_del", "close_dec"}
          /\ frame[t].key \in DOMAIN sn_in_use
          /\ sn_in_use[frame[t].key].device # frame[t].dev
          /\ frame'[t] # frame[t])
         => sn_in_use' = sn_in_use]_vars

\* ======================================================================
\*                    PROPERTIES OF THE ACCESSOR
\* ======================================================================

InCatalog(name) == name \in DOMAIN registers

\* C6: a ReadRegister of a catalog register without 'R' raises
\* LJD_REGISTER_NOT_READABLE, a WriteRegister of one without 'W' raises
\* LJD_REGISTER_NOT_WRITABLE, and neither reaches a driver call, whatever the
\* register's type.
C6_PermissionCheckedBeforeDriver ==
    /\ (regCall.op = "Read" /\ InCatalog(regCall.name)
        /\ "R" \notin Chars(registers[regCall.name].readwrite))
       => /\ regCall.exc = "LabJackException"
          /\ regCall.code = LJD_REGISTER_NOT_READABLE
          /\ regCall.calls = <<>>
    /\ (regCall.op = "Write" /\ InCatalog(regCall.name)
        /\ "W" \notin Chars(registers[regCall.name].readwrite))
       => /\ regCall.exc = "LabJackException"
          /\ regCall.code = LJD_REGISTER_NOT_WRITABLE
          /\ regCall.calls = <<>>

\* A read of a write-only register whose type tag the accessor does not know.
C6_Witness ==
    /\ regCall.op = "Read"
    /\ regCall.name = "REG_A"
    /\ registers["REG_A"].readwrite = "W"
    /\ registers["REG_A"].type = "BYTE"
    /\ regCall.code = LJD_REGISTER_NOT_READABLE

\* The raw entry of the document that the catalog entry `name` comes from.
RawOf(name) ==
    constants_doc[CHOOSE i \in DOMAIN constants_doc : constants_doc[i].name = name]

\* The symbolic names the document gives for the raw driver value.
NamesFor(name, raw) ==
    LET list == RawOf(name).constants
    IN {list[i].name : i \in {j \in DOMAIN list : PyEq(PyInt(list[j].value), raw)}}

\* C7: a ReadRegister that returns gives a symbolic name of the raw driver
\* value when the register has a constants mapping with that value as a key,
\* and the raw driver value otherwise.
C7_ReadSubstitutesConstantName ==
    (regCall.op = "Read" /\ regCall.exc = "none") =>
        LET names == NamesFor(regCall.name, regCall.raw)
        IN IF RawOf(regCall.name).has_constants /\ names # {}
           THEN regCall.value.t = "str" /\ regCall.value.s \in names
           ELSE PyEq(regCall.value, regCall.raw)

\* An integer register read as 1.0 came back as the name "ON".
C7_Witness ==
    /\ regCall.op = "Read"
    /\ regCall.name = "REG_A"
    /\ registers["REG_A"].type \in IntTypes
    /\ regCall.raw = PyFloat(2)
    /\ regCall.value = PyString("ON")
    /\ Len(regCall.calls) = 1

\* The driver write the claim expects for a register kind and a value.
WriteFn(type) == IF type \in StringTypes THEN "eWriteNameString" ELSE "eWriteName"
Coercible(type, v) ==
    IF type \in IntTypes THEN CanInt(v)
    ELSE IF type \in FloatTypes THEN CanFloat(v)
    ELSE TRUE
Coerced(type, v) ==
    IF type \in IntTypes THEN IntOf(v)
    ELSE IF type \in FloatTypes THEN FloatOf(v)
    ELSE StrOf(v)

\* C8 (as claimed): a WriteRegister of a writable register of an integer,
\* string or float kind makes exactly one driver write, carrying the name and
\* the caller's value coerced by kind.
C8_WriteCoercesValueByKind ==
    (regCall.op = "Write" /\ InCatalog(regCall.name)
     /\ "W" \in Chars(registers[regCall.name].readwrite)
     /\ registers[regCall.name].type \in IntTypes \cup StringTypes \cup FloatTypes
     /\ Coercible(registers[regCall.name].type, regCall.arg))
    => LET type == registers[regCall.name].type
       IN /\ regCall.exc = "none"
          /\ Len(regCall.calls) = 1
          /\ regCall.calls[1].fn = WriteFn(type)
          /\ regCall.calls[1].name = regCall.name
          /\ regCall.calls[1].value.t = Coerced(type, regCall.arg).t
          /\ PyEq(regCall.calls[1].value, Coerced(type, regCall.arg))

\* The catalog has been built.
Built == DOMAIN registers # {}

\* The entries of the document that the pattern takes, with start <= end.
FamilyIndexes ==
    { k \in DOMAIN constants_doc :
        \E f \in RegInfoMatch(constants_doc[k].name) : f.start <= f.end }

ShapeOf(k) == CHOOSE f \in RegInfoMatch(constants_doc[k].name) : TRUE

\* The catalog names that entry k of the document writes.
NamesWritten(k) ==
    LET v == RegInfoMatch(constants_doc[k].name) IN
    IF v = {} THEN {constants_doc[k].name}
    ELSE LET f == CHOOSE g \in v : TRUE
         IN {ChannelsDescriptor(f)} \cup {PointName(f, i) : i \in f.start .. f.end}

WrittenLater(k, name) ==
    \E j \in DOMAIN constants_doc : j > k /\ name \in NamesWritten(j)

StartStep(t) ==
    /\ sframe[t].pc = "idle"
    /\ nstream' = nstream + 1
    /\ \/ sframe'[t].op = "StreamStart"
       \/ sres'[t].op = "StreamStart" /\ sres'[t].seq = nstream'

\* C9: a StreamStart on a device that is streaming raises
\* LJD_STREAMING_IN_PROGRESS, makes no driver call and leaves the streaming
\* state and the stored callback as they were.
C9_StartWhileStreamingRejected ==
    [][\A t \in Controllers :
         (StartStep(t) /\ streaming) =>
            /\ sres'[t].seq = nstream'
            /\ sres'[t].exc = "LabJackException"
            /\ sres'[t].code = LJD_STREAMING_IN_PROGRESS
            /\ sres'[t].drv = 0
            /\ sframe'[t].pc = "idle"
            /\ UNCHANGED <<streaming, stream_callback, ljmStream, ljmCalls, cbLog>>]_vars

\* A started stream with cb1 stored, and a second StreamStart that offered
\* cb2 rejected.
C9_Witness ==
    \E t \in Controllers :
        /\ sres[t].op = "StreamStart"
        /\ sres[t].code = LJD_STREAMING_IN_PROGRESS
        /\ sres[t].callback = "cb2"
        /\ sres[t].channels = "names"
        /\ streaming /\ stream_callback = "cb1"
        /\ ljmStream.running /\ ljmStream.registered
        /\ ljmCalls.eStreamStart = 1

\* C10: a StreamStop on a device that is not streaming returns False without
\* raising, makes no eStreamStop call and no callback call, and the device is
\* not streaming when it returns.
C10_StopWhenNotStreamingIsNoop ==
    \A t \in Controllers :
        /\ (sres[t].op = "StreamStop" /\ sres[t].branch = "noop"
            /\ sres[t].seq = nstream /\ sframe[t].pc = "idle")
           => /\ sres[t].exc = "none"
              /\ sres[t].value = "False"
              /\ sres[t].stops = 0 /\ sres[t].drv = 0 /\ sres[t].cbs = 0
              /\ ~streaming
        /\ (sframe[t].op = "StreamStop" /\ sframe[t].branch = "noop")
           => /\ sframe[t].stops = 0 /\ sframe[t].drv = 0 /\ sframe[t].cbs = 0
              /\ ~streaming

\* A StreamStop after the stream was already stopped (the final callback call
\* is in the log), and one on a device that never streamed.
C10_Witness ==
    \E t \in Controllers :
        /\ sres[t].op = "StreamStop" /\ sres[t].branch = "noop"
        /\ sres[t].value = "False"
        /\ Len(cbLog) >= 1 /\ cbLog[Len(cbLog)].arg = "None"
        /\ stream_completion = "False"
        /\ ljmCalls.eStreamStop = 1

\* C11 (as claimed): a StreamStop of a streaming device calls eStreamStop,
\* calls the stored callback once with None and leaves the device not
\* streaming; and no data block reaches the callback after that final call
\* unless a new stream call has begun (seq counts the calls begun).
C11_SentinelIsFinalCallback ==
    /\ \A t \in Controllers :
         (sres[t].op = "StreamStop" /\ sres[t].branch = "stop"
          /\ sres[t].exc = "none" /\ sres[t].seq = nstream /\ sframe[t].pc = "idle")
         => sres[t].stops = 1 /\ sres[t].cbs = 1 /\ ~streaming
    /\ \A i, j \in 1..Len(cbLog) :
         (i < j /\ cbLog[i].arg = "None" /\ cbLog[j].arg = "data")
         => cbLog[j].seq > cbLog[i].seq

\* C12 (as claimed): a StreamStart with a callback on a device that is not
\* streaming raises LJD_STREAMING_REQUIRES_CHANNELS when the channel list is
\* None and when it is empty, with no driver call; only a call with channel
\* names goes past the checks.
C12_EmptyChannelsRejected ==
    \A t \in Controllers :
        /\ (sres[t].op = "StreamStart" /\ sres[t].callback # None
            /\ sres[t].channels \in {None, "empty"}
            /\ sres[t].code # LJD_STREAMING_IN_PROGRESS)
           => /\ sres[t].exc = "LabJackException"
              /\ sres[t].code = LJD_STREAMING_REQUIRES_CHANNELS
              /\ sres[t].drv = 0
        /\ (sframe[t].op = "StreamStart" /\ sframe[t].pc # "idle")
           => sframe[t].channels = "names"

\* C18 (as claimed): a StreamStart that failed, other than by finding the
\* device streaming, leaves the device not streaming.
C18_FailedStartLeavesNotStreaming ==
    \A t \in Controllers :
        (sres[t].op = "StreamStart" /\ sres[t].exc # "none"
         /\ sres[t].code # LJD_STREAMING_IN_PROGRESS
         /\ sres[t].seq = nstream /\ sframe[t].pc = "idle")
        => ~streaming

\* C15 (as claimed): StreamStart and StreamStop run under the device lock, so
\* no two of these calls are in progress at once: of two threads calling
\* StreamStart on a device that is not streaming only one gets past the
\* streaming test, and eStreamStart is called once for it.
C15_StreamCallsMutuallyExclusive ==
    \A t, u \in StreamThreads :
        t # u => ~(sframe[t].pc # "idle" /\ sframe[u].pc # "idle")

\* ======================================================================
\*          PROPERTIES OF DISCOVERY AND THE CONFIGURATION DIALOG
\* ======================================================================

\* The invocations of a callback made for call c.
InvocationsFor(c) == { i \in DOMAIN acbLog : acbLog[i].call = c }

\* C13 (as claimed): a call of AvailableDevices with a callback leads to one
\* invocation of that callback: never more than one, and one once the call
\* and the thread it started have ended without a driver failure, also when
\* the call found a cached result and force was false.
C13_CallbackInvokedOncePerCall ==
    \A c \in DOMAIN acalls :
        acalls[c].callback # None =>
            /\ Cardinality(InvocationsFor(c)) <= 1
            /\ \A i \in InvocationsFor(c) : acbLog[i].cb = acalls[c].callback
            /\ (acalls[c].done /\ ~acalls[c].failed)
                  => Cardinality(InvocationsFor(c)) = 1

\* C17 (as claimed): no AvailableDevices call returns, and no discovery
\* callback receives, the cache while a scan that has reset it is still
\* filling it.
C17_ResultIsCompletedScan ==
    /\ \A t \in Callers : ~ares[t].partial
    /\ \A i \in DOMAIN acbLog : ~acbLog[i].partial

\* C20 (as claimed): GetConfigDialog returns the argument of the latest
\* SetConfigDialog call, None when there was none.
C20_DialogSlotPassThrough ==
    cfg_got.called => cfg_got.value = cfg_got.expected

=============================================================================
